---------------------------- MODULE Spec2Model ----------------------------
(***************************************************************************)
(* Model of experiments/maxdiv_coastdat.cc: the CoastDat reading pipeline  *)
(* read_coastdat and its two entry points maxdiv_coastdat and              *)
(* maxdiv_coastdat_context_window_size.                                    *)
(*                                                                         *)
(* One behaviour is one call of an entry point.  Init draws the arguments  *)
(* of the call; every action is one step of the code (one backend call,    *)
(* the allocation, the pooling of one block, a return).  The NetCDF        *)
(* backend, the analysis routine and the sizing function are external:     *)
(* their outcomes are chosen nondeterministically where they are called.   *)
(***************************************************************************)
EXTENDS Integers, Sequences, FiniteSets, TLC

(***************************************************************************)
(* Program constants.                                                      *)
(***************************************************************************)
COASTDAT_FIRST_YEAR == 1958
COASTDAT_NUM_YEARS == 50
NC_NOERR == 0

(***************************************************************************)
(* Bounds of the model.                                                    *)
(***************************************************************************)
MaxRelYear == 2      \* relative years 0..MaxRelYear are supplied
MaxDimLen == 2       \* a unit's time dimension has 1 or MaxDimLen steps
MaxExtent == 3       \* latitude / longitude ranges span 1..MaxExtent cells
MaxPooling == 2      \* spatialPoolingSize is drawn from 0..MaxPooling

(***************************************************************************)
(* Outcomes of the external collaborators.                                 *)
(***************************************************************************)
NativeErrors == {-49, -33}            \* nonzero codes a NetCDF call may return
MaxdivResults == {0, 7}               \* outcome reported by the analysis routine
WindowSizes == {1, 3}                 \* results of determineContextWindowSize

NULL == "NULL"                        \* a null params pointer
NullParams == [null |-> TRUE]         \* a null data_params pointer
None == << >>                         \* no value returned (yet); <<r>> is r
Uninit == [num |-> 0, den |-> 0]      \* a tensor cell that was never written

Entries == {"maxdiv_coastdat", "maxdiv_coastdat_context_window_size"}

(***************************************************************************)
(* Small arithmetic helpers.                                               *)
(***************************************************************************)
Min(a, b) == IF a < b THEN a ELSE b

RECURSIVE SumTo(_, _)
\* SumTo(f, n) = f[0] + ... + f[n-1]
SumTo(f, n) == IF n = 0 THEN 0 ELSE f[n - 1] + SumTo(f, n - 1)

(***************************************************************************)
(* utils.h: strtolower and splitString.                                    *)
(* A string is a sequence of one-character strings.                        *)
(***************************************************************************)
LowerChar(c) ==
    CASE c = "F" -> "f"
      [] c = "H" -> "h"
      [] c = "S" -> "s"
      [] OTHER -> c

strtolower(str) == [i \in 1..Len(str) |-> LowerChar(str[i])]

Delimiters == {",", ";", " "}

RECURSIVE SplitFrom(_, _, _, _)
\* tokens of str[i..], cur is the token being collected; empty tokens are dropped
SplitFrom(str, i, cur, tokens) ==
    IF i > Len(str)
      THEN IF cur = << >> THEN tokens ELSE Append(tokens, cur)
      ELSE IF str[i] \in Delimiters
             THEN SplitFrom(str, i + 1, << >>,
                            IF cur = << >> THEN tokens ELSE Append(tokens, cur))
             ELSE SplitFrom(str, i + 1, Append(cur, str[i]), tokens)

splitString(str) == SplitFrom(str, 1, << >>, << >>)

(***************************************************************************)
(* The arguments of a call.                                                *)
(***************************************************************************)
VariableStrings ==
    { << >>,
      << "," >>,
      << "f", "f" >>,
      << "F", "F", ";", "h", "s" >> }

\* relative years, the absolute years of relative year 1 and MaxRelYear, and
\* the first absolute year whose relative index is itself an absolute year
YearInputs ==
    (0..MaxRelYear)
      \cup {COASTDAT_FIRST_YEAR, COASTDAT_FIRST_YEAR + MaxRelYear - 1,
            2 * COASTDAT_FIRST_YEAR - 1}

\* index of the first latitude and of the first longitude of a request
FirstLatIndex == 1
FirstLonIndex == 2

\* the requests: latitude and longitude ranges of 1..MaxExtent cells
coastdat_params_t ==
    [ variables : VariableStrings,
      firstYear : YearInputs, lastYear : YearInputs,
      firstLat : {FirstLatIndex},
      lastLat : FirstLatIndex..(FirstLatIndex + MaxExtent - 1),
      firstLon : {FirstLonIndex},
      lastLon : FirstLonIndex..(FirstLonIndex + MaxExtent - 1),
      spatialPoolingSize : 0..MaxPooling ]

\* the calls: maxdiv_coastdat(params, data_params, ...) and
\* maxdiv_coastdat_context_window_size(data_params)
Calls ==
    { c \in [ entry : Entries, params : {NULL, "params"},
              data_params : {NullParams} \cup coastdat_params_t ] :
        c.entry = "maxdiv_coastdat_context_window_size" => c.params = NULL }

(***************************************************************************)
(* The data set behind the NetCDF backend: the sample of variable v in     *)
(* relative year yr at time step t, latitude index lat, longitude index    *)
(* lon.  Every coordinate contributes to the value.                        *)
(***************************************************************************)
VarCode(v) == IF v[1] = "f" THEN 1 ELSE 2

Sample(v, yr, t, lat, lon) ==
    1000 * VarCode(v) + 200 * (yr % 7) + 50 * t + 7 * lat + lon

(***************************************************************************)
(* State.                                                                  *)
(***************************************************************************)
VARIABLES
    entry,          \* the entry point that was called
    params,         \* its params argument (NULL or a parameter block)
    data_params,    \* its data_params argument (NullParams or a request)
    pc,             \* position in the code
    variables,      \* read_coastdat: the split variable list
    firstYear,      \* read_coastdat: normalized first year
    lastYear,       \* read_coastdat: normalized last year
    shape,          \* read_coastdat: shape of the tensor, [t, x, y, z, d]
    year,           \* read_coastdat: loop variable
    d,              \* read_coastdat: loop variable (index into variables)
    dim_len,        \* read_coastdat: last queried time length
    timeOffset,     \* read_coastdat: running time offset
    status,         \* read_coastdat: status of the last backend call
    ncid,           \* read_coastdat: handle of the last opened unit
    coastData,      \* the tensor: [shape, data], data over its coordinates
    buffer,         \* the raw block: [shape, raw], raw over 0..size-1
    handles,        \* backend: the handles that are open
    nextId,         \* backend: the next handle to hand out
    dimlens,        \* backend: time length of the units queried so far
    trace,          \* history: backend calls, allocations and external calls
    writes,         \* history: number of writes to each tensor coordinate
    oob,            \* history: coordinates written outside the tensor
    readResult,     \* return value of read_coastdat (None before it returns)
    result,         \* return value of the entry point (None before it returns)
    maxdivResult    \* outcome the analysis routine reported (None if not run)

locals == <<variables, firstYear, lastYear, shape, year, d, dim_len,
            timeOffset, status, ncid>>
args == <<entry, params, data_params>>
backend == <<handles, nextId, dimlens>>
tensors == <<coastData, buffer, writes, oob>>
returns == <<readResult, result, maxdivResult>>
vars == <<args, pc, locals, backend, tensors, trace, returns>>

EmptyTensor == [shape |-> [t |-> 0, x |-> 0, y |-> 0, z |-> 0, d |-> 0],
                data |-> << >>]
EmptyBuffer == [shape |-> <<0, 0, 0>>, raw |-> << >>]

Init ==
    /\ \E c \in Calls :
         /\ entry = c.entry
         /\ params = c.params
         /\ data_params = c.data_params
    /\ pc = "entry"
    /\ variables = << >>
    /\ firstYear = 0
    /\ lastYear = 0
    /\ shape = EmptyTensor.shape
    /\ year = 0
    /\ d = 0
    /\ dim_len = 0
    /\ timeOffset = 0
    /\ status = 0
    /\ ncid = 0
    /\ coastData = EmptyTensor
    /\ buffer = EmptyBuffer
    /\ handles = {}
    /\ nextId = 1
    /\ dimlens = << >>
    /\ trace = << >>
    /\ writes = << >>
    /\ oob = {}
    /\ readResult = None
    /\ result = None
    /\ maxdivResult = None


(***************************************************************************)
(* read_coastdat: parameter check (lines 79-97).                           *)
(***************************************************************************)
\* variant of ConvertYear: the relative index of an absolute year starts at 0
ConvertYearOffByOne(y) ==
    IF y >= COASTDAT_FIRST_YEAR THEN y - COASTDAT_FIRST_YEAR ELSE y

\* lines 85-86: a year >= COASTDAT_FIRST_YEAR is absolute, any other relative
ConvertYear(y) ==
    IF y >= COASTDAT_FIRST_YEAR THEN y - COASTDAT_FIRST_YEAR + 1 ELSE y

\* variant of YearsRejected: the order of the two years is not checked
YearsRejectedNoOrder(first, last) ==
    \/ first < 1
    \/ last < 1
    \/ last - first + 1 > COASTDAT_NUM_YEARS

\* line 87
YearsRejected(first, last) ==
    \/ first < 1
    \/ last < 1
    \/ last < first
    \/ last - first + 1 > COASTDAT_NUM_YEARS

\* lines 80-88: the request is refused with return code 1
ParamsRejected(dp) ==
    IF dp = NullParams THEN TRUE
    ELSE IF dp.spatialPoolingSize < 1 THEN TRUE
    ELSE IF Len(splitString(strtolower(dp.variables))) < 1 THEN TRUE
    ELSE YearsRejected(ConvertYear(dp.firstYear), ConvertYear(dp.lastYear))

LonCount(dp) == dp.lastLon - dp.firstLon + 1
LatCount(dp) == dp.lastLat - dp.firstLat + 1

\* ceil(a / static_cast<float>(b)) converted to an index
CeilDiv(a, b) == (a + b - 1) \div b

\* line 94, as written: ceil(lastLon - firstLon + 1) / float(poolingSize);
\* ceil is applied to the integer extent, the quotient is then truncated by
\* the conversion to an index
ShapeX(dp) == LonCount(dp) \div dp.spatialPoolingSize

\* line 95: ceil((lastLat - firstLat + 1) / float(poolingSize))
ShapeY(dp) == CeilDiv(LatCount(dp), dp.spatialPoolingSize)

\* lines 93-97
InitialShape(dp) ==
    [ t |-> 0, x |-> ShapeX(dp), y |-> ShapeY(dp), z |-> 1,
      d |-> Len(splitString(strtolower(dp.variables))) ]

Log(event) == trace' = Append(trace, event)

\* variant of ReturnFromRead: every failure is reported as the generic code 1
ReturnFromReadGeneric(code) ==
    /\ readResult' = <<IF code = 0 THEN 0 ELSE 1>>
    /\ buffer' = EmptyBuffer
    /\ pc' = "read_return"

\* variant of ReturnFromRead: the raw block outlives read_coastdat
ReturnFromReadKeepBuffer(code) ==
    /\ readResult' = <<code>>
    /\ buffer' = buffer
    /\ pc' = "read_return"

\* return from read_coastdat with the given code; the local `buffer` goes
\* out of scope
ReturnFromRead(code) ==
    /\ readResult' = <<code>>
    /\ buffer' = EmptyBuffer
    /\ pc' = "read_return"

\* maxdiv_coastdat, lines 189-190
MaxdivCoastdatNullParams ==
    /\ pc = "entry"
    /\ entry = "maxdiv_coastdat"
    /\ params = NULL
    /\ result' = <<1>>
    /\ pc' = "done"
    /\ UNCHANGED <<args, locals, backend, tensors, trace, readResult, maxdivResult>>

\* the entry point calls read_coastdat
ReadCalled ==
    /\ pc = "entry"
    /\ ~(entry = "maxdiv_coastdat" /\ params = NULL)

\* read_coastdat, lines 80-88: return 1
RejectParams ==
    /\ ReadCalled
    /\ ParamsRejected(data_params)
    /\ ReturnFromRead(1)
    /\ UNCHANGED <<args, locals, backend, coastData, writes, oob, trace,
                   result, maxdivResult>>

\* read_coastdat, lines 80-98: the request is accepted, the shape is set up
\* and the measuring loop starts
AcceptParams ==
    /\ ReadCalled
    /\ ~ParamsRejected(data_params)
    /\ variables' = splitString(strtolower(data_params.variables))
    /\ firstYear' = ConvertYear(data_params.firstYear)
    /\ lastYear' = ConvertYear(data_params.lastYear)
    /\ shape' = InitialShape(data_params)
    /\ year' = ConvertYear(data_params.firstYear)
    /\ pc' = "measure_open"
    /\ UNCHANGED <<args, d, dim_len, timeOffset, status, ncid, backend,
                   tensors, trace, returns>>

(***************************************************************************)
(* The NetCDF calls.  A unit is <<variable, relative year>>, the file the  *)
(* name of line 101 / 133 denotes.                                         *)
(***************************************************************************)
Statuses == {NC_NOERR} \cup NativeErrors

\* the lengths a unit's time dimension may have
DimLens == {1, MaxDimLen}

\* the unit the loop is at: variables[0] while measuring, variables[d] after
MeasuredUnit == <<variables[1], year>>
StreamedUnit == <<variables[d + 1], year>>

\* variant of Checked: the status is not looked at
CheckedNoReturn(s, next) ==
    pc' = next /\ UNCHANGED <<readResult, buffer>>

\* if (status != NC_NOERR) return status;  otherwise go on at `next`
Checked(s, next) ==
    IF s # NC_NOERR
      THEN ReturnFromRead(s)
      ELSE pc' = next /\ UNCHANGED <<readResult, buffer>>

\* nc_open(filename, 0, &ncid)
NcOpen(unit, next) ==
    \E s \in Statuses :
        /\ status' = s
        /\ Log([op |-> "nc_open", unit |-> unit, status |-> s])
        /\ IF s = NC_NOERR
             THEN /\ ncid' = nextId
                  /\ handles' = handles \cup {nextId}
                  /\ nextId' = nextId + 1
             ELSE UNCHANGED <<ncid, handles, nextId>>
        /\ Checked(s, next)

\* nc_inq_varid / nc_inq_dimid: only the status is used further on
NcInq(op, unit, next) ==
    \E s \in Statuses :
        /\ status' = s
        /\ Log([op |-> op, unit |-> unit, status |-> s])
        /\ Checked(s, next)

\* nc_inq_dimlen(ncid, dim_id, &dim_len): the backend reports the length of
\* the unit's time dimension, the same each time the unit is asked
NcInqDimlen(unit, next) ==
    \E s \in Statuses :
        /\ status' = s
        /\ Log([op |-> "nc_inq_dimlen", unit |-> unit, status |-> s])
        /\ IF s = NC_NOERR
             THEN \E n \in DimLens :
                    /\ unit \in DOMAIN dimlens => n = dimlens[unit]
                    /\ dim_len' = n
                    /\ dimlens' = (unit :> n) @@ dimlens
             ELSE UNCHANGED <<dim_len, dimlens>>
        /\ Checked(s, next)

\* variant of NcClose: the call is made but the handle stays open
NcCloseLeaveOpen(unit) ==
    /\ handles' = handles
    /\ Log([op |-> "nc_close", unit |-> unit, status |-> NC_NOERR])

\* nc_close(ncid)
NcClose(unit) ==
    /\ handles' = handles \ {ncid}
    /\ Log([op |-> "nc_close", unit |-> unit, status |-> NC_NOERR])

(***************************************************************************)
(* read_coastdat: the measuring loop (lines 98-117).                       *)
(***************************************************************************)
MeasureOpen ==
    /\ pc = "measure_open"
    /\ NcOpen(MeasuredUnit, "measure_varid")
    /\ UNCHANGED <<args, variables, firstYear, lastYear, shape, year, d,
                   dim_len, timeOffset, dimlens, coastData, writes, oob,
                   result, maxdivResult>>

MeasureVarid ==
    /\ pc = "measure_varid"
    /\ NcInq("nc_inq_varid", MeasuredUnit, "measure_dimid")
    /\ UNCHANGED <<args, variables, firstYear, lastYear, shape, year, d,
                   dim_len, timeOffset, ncid, backend, coastData, writes,
                   oob, result, maxdivResult>>

MeasureDimid ==
    /\ pc = "measure_dimid"
    /\ NcInq("nc_inq_dimid", MeasuredUnit, "measure_dimlen")
    /\ UNCHANGED <<args, variables, firstYear, lastYear, shape, year, d,
                   dim_len, timeOffset, ncid, backend, coastData, writes,
                   oob, result, maxdivResult>>

\* lines 112-114: on success shape.t += dim_len
MeasureDimlen ==
    /\ pc = "measure_dimlen"
    /\ NcInqDimlen(MeasuredUnit, "measure_close")
    /\ shape' = IF status' = NC_NOERR
                  THEN [shape EXCEPT !.t = @ + dim_len']
                  ELSE shape
    /\ UNCHANGED <<args, variables, firstYear, lastYear, year, d,
                   timeOffset, ncid, handles, nextId, coastData, writes,
                   oob, result, maxdivResult>>

\* lines 116-117 and the loop header of line 98
MeasureClose ==
    /\ pc = "measure_close"
    /\ NcClose(MeasuredUnit)
    /\ year' = year + 1
    /\ pc' = IF year + 1 <= lastYear THEN "measure_open" ELSE "allocate"
    /\ UNCHANGED <<args, variables, firstYear, lastYear, shape, d, dim_len,
                   timeOffset, status, ncid, nextId, dimlens, tensors,
                   returns>>


(***************************************************************************)
(* read_coastdat: allocation of the tensor (lines 119-128).                *)
(***************************************************************************)
Coords(sh) ==
    (0..(sh.t - 1)) \X (0..(sh.x - 1)) \X (0..(sh.y - 1)) \X (0..(sh.z - 1))
        \X (0..(sh.d - 1))

\* coastData.resize(shape): storage for the shape, nothing written yet
Resized(sh) == [shape |-> sh, data |-> [c \in Coords(sh) |-> Uninit]]

Allocate ==
    /\ pc = "allocate"
    /\ coastData' = Resized(shape)
    /\ writes' = [c \in Coords(shape) |-> 0]
    /\ buffer' = EmptyBuffer
    /\ timeOffset' = 0
    /\ year' = firstYear
    /\ d' = 0
    /\ Log([op |-> "resize", unit |-> << >>, status |-> NC_NOERR])
    /\ pc' = "stream_open"
    /\ UNCHANGED <<args, variables, firstYear, lastYear, shape, dim_len,
                   status, ncid, backend, oob, returns>>

(***************************************************************************)
(* read_coastdat: the streaming loop (lines 128-179).                      *)
(***************************************************************************)
StreamOpen ==
    /\ pc = "stream_open"
    /\ NcOpen(StreamedUnit, "stream_varid")
    /\ UNCHANGED <<args, variables, firstYear, lastYear, shape, year, d,
                   dim_len, timeOffset, dimlens, coastData, writes, oob,
                   result, maxdivResult>>

StreamVarid ==
    /\ pc = "stream_varid"
    /\ NcInq("nc_inq_varid", StreamedUnit, "stream_dimid")
    /\ UNCHANGED <<args, variables, firstYear, lastYear, shape, year, d,
                   dim_len, timeOffset, ncid, backend, coastData, writes,
                   oob, result, maxdivResult>>

StreamDimid ==
    /\ pc = "stream_dimid"
    /\ NcInq("nc_inq_dimid", StreamedUnit, "stream_dimlen")
    /\ UNCHANGED <<args, variables, firstYear, lastYear, shape, year, d,
                   dim_len, timeOffset, ncid, backend, coastData, writes,
                   oob, result, maxdivResult>>

\* lines 145-147: dataLength[0] = dim_len
StreamDimlen ==
    /\ pc = "stream_dimlen"
    /\ NcInqDimlen(StreamedUnit, "stream_read")
    /\ UNCHANGED <<args, variables, firstYear, lastYear, shape, year, d,
                   timeOffset, ncid, handles, nextId, coastData, writes,
                   oob, result, maxdivResult>>

\* the block nc_get_vara_* delivers for start {0, firstLat, firstLon} and
\* count {len, lats, lons}, in the order (time, latitude, longitude), into
\* the storage of a tensor of shape {len, lats, lons, 1, 1}
RawBlock(unit, dp, len) ==
    LET lats == LatCount(dp)
        lons == LonCount(dp)
    IN [ shape |-> <<len, lats, lons>>,
         raw |-> [k \in 0..(len * lats * lons - 1) |->
                    Sample(unit[1], unit[2], k \div (lats * lons),
                           dp.firstLat + ((k \div lons) % lats),
                           dp.firstLon + (k % lons))] ]

\* lines 150-156: buffer.resize(...), nc_get_vara_*(...)
StreamRead ==
    /\ pc = "stream_read"
    /\ \E s \in Statuses :
         /\ status' = s
         /\ Log([op |-> "nc_get_vara", unit |-> StreamedUnit, status |-> s])
         /\ IF s # NC_NOERR
              THEN ReturnFromRead(s)
              ELSE /\ buffer' = RawBlock(StreamedUnit, data_params, dim_len)
                   /\ pc' = "stream_close"
                   /\ UNCHANGED readResult
    /\ UNCHANGED <<args, variables, firstYear, lastYear, shape, year, d,
                   dim_len, timeOffset, ncid, backend, coastData, writes,
                   oob, result, maxdivResult>>

\* line 158
StreamClose ==
    /\ pc = "stream_close"
    /\ NcClose(StreamedUnit)
    /\ pc' = "pool"
    /\ UNCHANGED <<args, locals, nextId, dimlens, tensors, returns>>

(***************************************************************************)
(* Average pooling of the block in `buffer` (lines 160-176).               *)
(***************************************************************************)
RECURSIVE SetSum(_, _)
\* the sum of f over the indices in S
SetSum(f, S) ==
    IF S = {} THEN 0
    ELSE LET e == CHOOSE e \in S : TRUE IN f[e] + SetSum(f, S \ {e})

BufferWidth == buffer.shape[2]       \* buffer.width(): number of latitudes
BufferHeight == buffer.shape[3]      \* buffer.height(): number of longitudes

\* line 163: where in buffer.raw() the matrix `timestep` of time step t
\* starts; the map is built on buffer.raw() in every iteration
TimestepBase(t) == 0

\* line 163: element (i, j) of `timestep`: rows of stride buffer.height(),
\* columns of stride 1
Timestep(t, i, j) == TimestepBase(t) + i * BufferHeight + j

\* lines 169-174: timestep.block(startRow, startCol, rows, cols).mean()
BlockMean(t, startRow, startCol, rows, cols) ==
    [ num |-> SetSum(buffer.raw,
                     { Timestep(t, i, j) :
                         i \in startRow..(startRow + rows - 1),
                         j \in startCol..(startCol + cols - 1) }),
      den |-> rows * cols ]

\* lines 169-174: the value stored for time step t and destination (x, y)
Pooled(t, x, y) ==
    LET p == data_params.spatialPoolingSize
    IN BlockMean(t, y * p, x * p,
                 Min(p, BufferWidth - y * p), Min(p, BufferHeight - x * p))

\* variant of PoolTargets: every block is stored in the first channel
PoolTargetsFirstChannel ==
    { <<timeOffset + t, x, y, 0, 0>> :
        t \in 0..(dim_len - 1),
        x \in 0..(shape.x - 1),
        y \in 0..(shape.y - 1) }

\* lines 161-169: the coordinates the pooling loop stores to
PoolTargets ==
    { <<timeOffset + t, x, y, 0, d>> :
        t \in 0..(dim_len - 1),
        x \in 0..(shape.x - 1),
        y \in 0..(shape.y - 1) }

\* lines 130, 177-179 and 128: the loop headers after a block is pooled
LastVariable == d + 1 >= Len(variables)

\* line 178: the offset advances by the length queried last
NextTimeOffset == IF LastVariable THEN timeOffset + dim_len ELSE timeOffset

\* A store outside the tensor's storage is undefined behaviour: the run
\* goes on with the tensor untouched, or it ends abnormally.
Pool ==
    /\ pc = "pool"
    /\ coastData' =
         [coastData EXCEPT !.data =
            [c \in DOMAIN coastData.data |->
               IF c \in PoolTargets
                 THEN Pooled(c[1] - timeOffset, c[2], c[3])
                 ELSE coastData.data[c]]]
    /\ writes' = [c \in DOMAIN writes |->
                    IF c \in PoolTargets THEN writes[c] + 1 ELSE writes[c]]
    /\ oob' = oob \cup (PoolTargets \ DOMAIN coastData.data)
    /\ Log([op |-> "pool", unit |-> StreamedUnit, status |-> NC_NOERR,
            offset |-> timeOffset, channel |-> d, len |-> dim_len])
    /\ \E crash \in IF PoolTargets \subseteq DOMAIN coastData.data
                      THEN {FALSE} ELSE BOOLEAN :
         IF crash
           THEN /\ pc' = "crashed"
                /\ UNCHANGED <<d, timeOffset, year>>
           ELSE /\ d' = IF LastVariable THEN 0 ELSE d + 1
                /\ timeOffset' = NextTimeOffset
                /\ year' = IF LastVariable THEN year + 1 ELSE year
                /\ pc' = IF LastVariable /\ year + 1 > lastYear
                           THEN "release" ELSE "stream_open"
    /\ UNCHANGED <<args, variables, firstYear, lastYear, shape, dim_len,
                   status, ncid, backend, buffer, returns>>

\* lines 180-182: buffer.release(); return 0;
Release ==
    /\ pc = "release"
    /\ Log([op |-> "release", unit |-> << >>, status |-> NC_NOERR])
    /\ ReturnFromRead(0)
    /\ UNCHANGED <<args, locals, backend, coastData, writes, oob, result,
                   maxdivResult>>

(***************************************************************************)
(* The entry points after read_coastdat has returned.                      *)
(***************************************************************************)
\* maxdiv_coastdat, line 195: if (status != 0) return status;
MaxdivCoastdatReadFailed ==
    /\ pc = "read_return"
    /\ entry = "maxdiv_coastdat"
    /\ readResult # <<0>>
    /\ result' = readResult
    /\ coastData' = EmptyTensor
    /\ pc' = "done"
    /\ UNCHANGED <<args, locals, backend, buffer, writes, oob, trace,
                   readResult, maxdivResult>>

\* what maxdiv_coastdat returns after the analysis routine reported r
\* (line 205: return 0)
MaxdivCoastdatResult(r) == 0

\* maxdiv_coastdat, lines 198-205: the analysis routine runs on the tensor
MaxdivCoastdatAnalyze ==
    /\ pc = "read_return"
    /\ entry = "maxdiv_coastdat"
    /\ readResult = <<0>>
    /\ \E r \in MaxdivResults :
         /\ maxdivResult' = <<r>>
         /\ result' = <<MaxdivCoastdatResult(r)>>
    /\ Log([op |-> "maxdiv", unit |-> << >>, status |-> NC_NOERR])
    /\ coastData' = EmptyTensor
    /\ pc' = "done"
    /\ UNCHANGED <<args, locals, backend, buffer, writes, oob, readResult>>

\* maxdiv_coastdat_context_window_size, lines 212-213
ContextWindowReadFailed ==
    /\ pc = "read_return"
    /\ entry = "maxdiv_coastdat_context_window_size"
    /\ readResult # <<0>>
    /\ result' = <<0>>
    /\ coastData' = EmptyTensor
    /\ pc' = "done"
    /\ UNCHANGED <<args, locals, backend, buffer, writes, oob, trace,
                   readResult, maxdivResult>>

\* maxdiv_coastdat_context_window_size, line 215
ContextWindowSize ==
    /\ pc = "read_return"
    /\ entry = "maxdiv_coastdat_context_window_size"
    /\ readResult = <<0>>
    /\ \E w \in WindowSizes : result' = <<w>>
    /\ Log([op |-> "determineContextWindowSize", unit |-> << >>,
            status |-> NC_NOERR])
    /\ coastData' = EmptyTensor
    /\ pc' = "done"
    /\ UNCHANGED <<args, locals, backend, buffer, writes, oob, readResult,
                   maxdivResult>>

Next ==
    \/ MaxdivCoastdatNullParams
    \/ RejectParams
    \/ AcceptParams
    \/ MeasureOpen
    \/ MeasureVarid
    \/ MeasureDimid
    \/ MeasureDimlen
    \/ MeasureClose
    \/ Allocate
    \/ StreamOpen
    \/ StreamVarid
    \/ StreamDimid
    \/ StreamDimlen
    \/ StreamRead
    \/ StreamClose
    \/ Pool
    \/ Release
    \/ MaxdivCoastdatReadFailed
    \/ MaxdivCoastdatAnalyze
    \/ ContextWindowReadFailed
    \/ ContextWindowSize

Spec == Init /\ [][Next]_vars


(***************************************************************************)
(* Vocabulary of the properties.                                           *)
(***************************************************************************)
Events == 1..Len(trace)
Failed(i) == trace[i].status # NC_NOERR
ExternalOps == {"maxdiv", "determineContextWindowSize"}
StorageOps == {"nc_open", "nc_inq_varid", "nc_inq_dimid", "nc_inq_dimlen",
               "nc_get_vara", "nc_close"}
ExternalCalled == \E i \in Events : trace[i].op \in ExternalOps
Succeeded(op, unit) ==
    \E i \in Events :
        trace[i].op = op /\ trace[i].unit = unit /\ trace[i].status = NC_NOERR

\* read_coastdat has returned (the entry point may have returned as well)
ReadReturned == readResult # None
\* the request passed the parameter check of read_coastdat
Accepted == variables # << >>

(***************************************************************************)
(* C1: maxdiv_coastdat returns the code the analysis routine reported:     *)
(* whenever the routine ran and reported r, the entry point returns r.     *)
(***************************************************************************)
C1_ReturnCodePropagated ==
    (pc = "done" /\ entry = "maxdiv_coastdat" /\ maxdivResult # None)
        => result = maxdivResult

(***************************************************************************)
(* C2: all-or-nothing.  An external routine is called only after the       *)
(* parameter check, every time-length query and every block read of the    *)
(* run succeeded; a failing step is the last storage operation, tensor     *)
(* write or external call of its run.                                      *)
(***************************************************************************)
C2_AllOrNothing ==
    /\ \A i \in Events : Failed(i) => i = Len(trace)
    /\ (ReadReturned /\ readResult # <<0>>) =>
          /\ ~ExternalCalled
          /\ maxdivResult = None
          /\ trace = << >> \/ Failed(Len(trace))
    /\ ExternalCalled =>
          /\ Accepted
          /\ \A i \in Events : ~Failed(i)
          /\ \A yr \in firstYear..lastYear :
                /\ Succeeded("nc_inq_dimlen", <<variables[1], yr>>)
                /\ \A k \in 1..Len(variables) :
                      /\ Succeeded("nc_inq_dimlen", <<variables[k], yr>>)
                      /\ Succeeded("nc_get_vara", <<variables[k], yr>>)

\* an external routine was called after two years of two variables were read
C2_Witness ==
    /\ pc = "done"
    /\ ExternalCalled
    /\ Len(variables) = 2
    /\ lastYear > firstYear


(***************************************************************************)
(* C3: when a backend call fails with native code c, read_coastdat and     *)
(* maxdiv_coastdat return exactly c, the code of the first failing call.   *)
(***************************************************************************)
C3_NativeCodeReturned ==
    \A i \in Events :
        (Failed(i) /\ \A j \in 1..(i - 1) : ~Failed(j)) =>
            /\ trace[i].op \in StorageOps
            /\ readResult = <<trace[i].status>>
            /\ (pc = "done" /\ entry = "maxdiv_coastdat") =>
                   result = <<trace[i].status>>

\* maxdiv_coastdat returned the native code of a block read that failed
\* after an earlier block had been pooled
C3_Witness ==
    /\ pc = "done"
    /\ entry = "maxdiv_coastdat"
    /\ trace # << >>
    /\ trace[Len(trace)].op = "nc_get_vara"
    /\ result = <<trace[Len(trace)].status>>
    /\ result[1] \in NativeErrors
    /\ \E i \in Events : trace[i].op = "pool"

(***************************************************************************)
(* C4: an invalid request is rejected before any I/O.  If params or        *)
(* data_params is NULL, spatialPoolingSize < 1, the variable list is empty *)
(* after splitting, or after year conversion firstYear < 1, lastYear < 1,  *)
(* lastYear < firstYear or lastYear - firstYear + 1 > 50, then no storage  *)
(* unit is opened, the tensor is neither allocated nor written, no         *)
(* external routine runs, read_coastdat and maxdiv_coastdat return 1.      *)
(***************************************************************************)
RelativeYear(y) ==
    IF y >= COASTDAT_FIRST_YEAR THEN y - COASTDAT_FIRST_YEAR + 1 ELSE y

InvalidYears(dp) ==
    LET first == RelativeYear(dp.firstYear)
        last == RelativeYear(dp.lastYear)
    IN first < 1 \/ last < 1 \/ last < first
         \/ last - first + 1 > COASTDAT_NUM_YEARS

InvalidRequest ==
    IF entry = "maxdiv_coastdat" /\ params = NULL THEN TRUE
    ELSE IF data_params = NullParams THEN TRUE
    ELSE IF data_params.spatialPoolingSize < 1 THEN TRUE
    ELSE IF splitString(strtolower(data_params.variables)) = << >> THEN TRUE
    ELSE InvalidYears(data_params)

C4_InvalidRejectedBeforeIO ==
    InvalidRequest =>
        /\ pc \in {"entry", "read_return", "done"}
        /\ trace = << >>
        /\ handles = {}
        /\ coastData = EmptyTensor
        /\ writes = << >>
        /\ oob = {}
        /\ maxdivResult = None
        /\ ReadReturned => readResult = <<1>>
        /\ (pc = "done" /\ entry = "maxdiv_coastdat") => result = <<1>>

\* maxdiv_coastdat returned for a request whose last year precedes its first
C4_Witness ==
    /\ pc = "done"
    /\ entry = "maxdiv_coastdat"
    /\ params # NULL
    /\ data_params # NullParams
    /\ data_params.spatialPoolingSize >= 1
    /\ splitString(strtolower(data_params.variables)) # << >>
    /\ RelativeYear(data_params.firstYear) >= 1
    /\ RelativeYear(data_params.lastYear) >= 1
    /\ RelativeYear(data_params.lastYear) < RelativeYear(data_params.firstYear)
    /\ result = <<1>>

(***************************************************************************)
(* C5: year normalization is consistent between absolute and relative     *)
(* input.  A run whose request names a year Y >= 1958 normalizes it to     *)
(* Y - 1958 + 1, and takes the accept/reject decision and opens the units, *)
(* in order, that the code takes and opens for the request in which        *)
(* Y - 1957 is supplied directly.                                          *)
(***************************************************************************)
\* the request with every absolute year replaced by its relative year
SuppliedRelative(dp) ==
    [dp EXCEPT !.firstYear = RelativeYear(@), !.lastYear = RelativeYear(@)]

\* the units read_coastdat opens for an accepted request, in order, if no
\* call fails: lines 98-102 and 128-135
UnitsOpenedFor(dp) ==
    LET v == splitString(strtolower(dp.variables))
        first == ConvertYear(dp.firstYear)
        last == ConvertYear(dp.lastYear)
        years == last - first + 1
        measured == [i \in 1..years |-> <<v[1], first + i - 1>>]
        streamed == [i \in 1..(years * Len(v)) |->
                       <<v[((i - 1) % Len(v)) + 1], first + ((i - 1) \div Len(v))>>]
    IN measured \o streamed

OpenEvents == SelectSeq(trace, LAMBDA e : e.op = "nc_open")
UnitsOpened == [i \in 1..Len(OpenEvents) |-> OpenEvents[i].unit]

IsPrefix(a, b) ==
    /\ Len(a) <= Len(b)
    /\ \A i \in 1..Len(a) : a[i] = b[i]

\* read_coastdat has checked the parameters of a request
RequestChecked == pc # "entry" /\ data_params # NullParams /\ ~(entry = "maxdiv_coastdat" /\ params = NULL)

NamesAbsoluteYear(dp) ==
    dp.firstYear >= COASTDAT_FIRST_YEAR \/ dp.lastYear >= COASTDAT_FIRST_YEAR

SameAsRelative ==
    LET rel == SuppliedRelative(data_params)
    IN /\ Accepted <=> ~ParamsRejected(rel)
       /\ ~Accepted => readResult = <<1>>
       /\ Accepted =>
            /\ firstYear = RelativeYear(data_params.firstYear)
            /\ lastYear = RelativeYear(data_params.lastYear)
            /\ firstYear = ConvertYear(rel.firstYear)
            /\ lastYear = ConvertYear(rel.lastYear)
            /\ IsPrefix(UnitsOpened, UnitsOpenedFor(rel))

\* the claim as stated: for every Y >= 1958
C5_Original ==
    (RequestChecked /\ NamesAbsoluteYear(data_params)) => SameAsRelative

\* the relative index of year y is not itself taken for an absolute year
RelativeStaysRelative(y) == RelativeYear(y) < COASTDAT_FIRST_YEAR

\* C5, amended: the same for every Y with 1958 <= Y <= 3914, that is as
\* long as Y - 1957 is below 1958
C5_Amended ==
    ( /\ RequestChecked
      /\ NamesAbsoluteYear(data_params)
      /\ RelativeStaysRelative(data_params.firstYear)
      /\ RelativeStaysRelative(data_params.lastYear) ) => SameAsRelative

\* a run for absolute years 1958..(1958 + MaxRelYear - 1) has opened all
\* units of the relative years 1..MaxRelYear
C5_Witness ==
    /\ pc = "done"
    /\ data_params # NullParams
    /\ data_params.firstYear = COASTDAT_FIRST_YEAR
    /\ data_params.lastYear = COASTDAT_FIRST_YEAR + MaxRelYear - 1
    /\ Accepted
    /\ firstYear = 1
    /\ lastYear = MaxRelYear
    /\ UnitsOpened = UnitsOpenedFor(SuppliedRelative(data_params))


(***************************************************************************)
(* C6: the tensor shape of an accepted region is (time, x, y, z, channel)  *)
(* with x = ceil(longitudes / poolingSize), y = ceil(latitudes /           *)
(* poolingSize), z = 1, channel = number of variables and time = the sum,  *)
(* over the selected years, of the time length the backend reports for the *)
(* first variable; the tensor is allocated with this shape before any      *)
(* block is streamed.                                                      *)
(***************************************************************************)
\* the least q with q * b >= a
Ceiling(a, b) == CHOOSE q \in 0..a : q * b >= a /\ (q - 1) * b < a

Allocated == \E i \in Events : trace[i].op = "resize"

TimeTotal ==
    SumTo([i \in 0..(lastYear - firstYear) |->
             dimlens[<<variables[1], firstYear + i>>]],
          lastYear - firstYear + 1)

SpecifiedShape ==
    [ t |-> TimeTotal,
      x |-> Ceiling(LonCount(data_params), data_params.spatialPoolingSize),
      y |-> Ceiling(LatCount(data_params), data_params.spatialPoolingSize),
      z |-> 1,
      d |-> Len(variables) ]

C6_ShapeAsSpecified ==
    /\ (Allocated /\ pc # "done") =>
          /\ shape = SpecifiedShape
          /\ coastData.shape = SpecifiedShape
          /\ DOMAIN coastData.data = Coords(SpecifiedShape)
    /\ \A i \in Events :
          trace[i].op = "nc_get_vara" =>
              \E j \in 1..(i - 1) : trace[j].op = "resize"

(***************************************************************************)
(* C7: for every streamed block, time step t and destination cell (x, y),  *)
(* the value written at (timeOffset + t, x, y, 0, d) is the mean of the    *)
(* raw samples of time step t whose latitude row lies in the window of y   *)
(* and whose longitude column lies in the window of x.                     *)
(***************************************************************************)
WindowOf(k, p, extent) ==
    { i \in 0..(extent - 1) : k * p <= i /\ i < k * p + Min(p, extent - k * p) }

MeanOfWindow(unit, t, x, y) ==
    LET p == data_params.spatialPoolingSize
        cells == WindowOf(y, p, LatCount(data_params))
                   \X WindowOf(x, p, LonCount(data_params))
        value == [c \in cells |->
                    Sample(unit[1], unit[2], t,
                           data_params.firstLat + c[1],
                           data_params.firstLon + c[2])]
    IN [num |-> SetSum(value, cells), den |-> Cardinality(cells)]

\* the block pooled last, if pooling was the last thing that happened
JustPooled == trace # << >> /\ trace[Len(trace)].op = "pool"

C7_PooledValueIsWindowMean ==
    JustPooled =>
        LET e == trace[Len(trace)]
        IN \A t \in 0..(e.len - 1), x \in 0..(shape.x - 1), y \in 0..(shape.y - 1) :
              LET c == <<e.offset + t, x, y, 0, e.channel>>
              IN c \in DOMAIN coastData.data =>
                    coastData.data[c] = MeanOfWindow(e.unit, t, x, y)

(***************************************************************************)
(* C8: along each axis the pooling windows of the destination cells        *)
(* partition the raw block: every window is non-empty and inside the       *)
(* block, windows do not overlap, their sizes sum to the extent, and only  *)
(* the last window may be smaller than the pooling size.                   *)
(***************************************************************************)
WindowStart(k, p) == k * p
WindowSize(k, p, extent) == Min(p, extent - k * p)

PartitionsAxis(n, p, extent) ==
    /\ \A k \in 0..(n - 1) :
          /\ WindowSize(k, p, extent) >= 1
          /\ WindowStart(k, p) >= 0
          /\ WindowStart(k, p) + WindowSize(k, p, extent) <= extent
          /\ k < n - 1 => WindowSize(k, p, extent) = p
    /\ \A k \in 0..(n - 1), m \in 0..(n - 1) :
          k < m => WindowStart(k, p) + WindowSize(k, p, extent) <= WindowStart(m, p)
    /\ SumTo([k \in 0..(n - 1) |-> WindowSize(k, p, extent)], n) = extent

C8_WindowsPartition ==
    Accepted =>
        /\ PartitionsAxis(shape.y, data_params.spatialPoolingSize,
                          LatCount(data_params))
        /\ PartitionsAxis(shape.x, data_params.spatialPoolingSize,
                          LonCount(data_params))

(***************************************************************************)
(* C9: every storage handle the pipeline opens is closed again: whenever   *)
(* read_coastdat has returned, no handle opened during the run is open.    *)
(***************************************************************************)
C9_HandlesClosed == ReadReturned => handles = {}

(***************************************************************************)
(* C10: the raw block is held only during its own iteration: its storage   *)
(* is released before the unit of the next block is opened or read, and    *)
(* none is held when an external routine is invoked.                       *)
(***************************************************************************)
\* the next unit is about to be opened, or is open and being queried
BeforeRead == pc \in {"stream_open", "stream_varid", "stream_dimid", "stream_dimlen", "stream_read"}

C10_Original ==
    /\ BeforeRead => buffer = EmptyBuffer
    /\ ReadReturned => buffer = EmptyBuffer

\* the block pooled last
LastPooled ==
    LET i == CHOOSE i \in Events :
                 trace[i].op = "pool"
                   /\ \A j \in (i + 1)..Len(trace) : trace[j].op # "pool"
    IN RawBlock(trace[i].unit, data_params, trace[i].len)

AnyPooled == \E i \in Events : trace[i].op = "pool"

\* C10, amended: the raw block of a block stays allocated after its pooling,
\* while the unit of the next block is opened and queried, until the read of
\* the next block re-uses the storage; one raw block at most is held; it is
\* released once the last block is pooled and on every error return, before
\* read_coastdat returns, so none is held when an external routine is invoked.
C10_Amended ==
    /\ ReadReturned => buffer = EmptyBuffer
    /\ pc \in {"stream_close", "pool"} =>
          buffer = RawBlock(StreamedUnit, data_params, dim_len)
    /\ (BeforeRead \/ pc = "release") =>
          buffer = IF AnyPooled THEN LastPooled ELSE EmptyBuffer

\* the unit of a later block is open while the raw block of the block pooled
\* before it is still allocated
C10_Witness ==
    /\ pc = "stream_dimlen"
    /\ handles # {}
    /\ AnyPooled
    /\ buffer # EmptyBuffer
    /\ buffer = LastPooled


(***************************************************************************)
(* C11: the pipeline is deterministic in its inputs.  For every backend,   *)
(* when read_coastdat returns 0 every coordinate of the tensor holds a     *)
(* value the run assigned from the backend's samples, so that two runs on  *)
(* the same inputs return equal tensors; none holds what the storage       *)
(* happened to contain.                                                    *)
(***************************************************************************)
ReadSucceeded == readResult = <<0>> /\ pc = "read_return"

C11_TensorDetermined ==
    ReadSucceeded =>
        \A c \in DOMAIN coastData.data : coastData.data[c] # Uninit


(***************************************************************************)
(* maxdiv_coastdat_default_params (lines 219-231) followed by the          *)
(* parameter check of read_coastdat.                                       *)
(***************************************************************************)
\* lines 223-230: the values assigned to the fields
DefaultParams ==
    [ variables |-> << "f", "f", ",", "h", "s", ",", "m", "p" >>,
      firstYear |-> 1, lastYear |-> 50,
      firstLat |-> 53, lastLat |-> 100,
      firstLon |-> 30, lastLon |-> 98,
      spatialPoolingSize |-> 4 ]

\* variant of MaxdivCoastdatDefaultParams: the pooling size is left as given
MaxdivCoastdatDefaultParamsKeepPooling ==
    /\ pc = "default_params"
    /\ data_params' =
         IF data_params = NullParams THEN data_params
         ELSE [DefaultParams EXCEPT
                 !.spatialPoolingSize = data_params.spatialPoolingSize]
    /\ pc' = "entry"
    /\ UNCHANGED <<entry, params, locals, backend, tensors, trace, returns>>

\* lines 219-231; the caller then passes the structure to an entry point
MaxdivCoastdatDefaultParams ==
    /\ pc = "default_params"
    /\ data_params' =
         IF data_params = NullParams THEN data_params ELSE DefaultParams
    /\ pc' = "entry"
    /\ UNCHANGED <<entry, params, locals, backend, tensors, trace, returns>>

\* a caller holds any structure (or none) and asks for the defaults
InitDefaults ==
    /\ \E c \in Calls :
         /\ entry = c.entry
         /\ params = c.params
         /\ data_params = c.data_params
    /\ pc = "default_params"
    /\ variables = << >>
    /\ firstYear = 0
    /\ lastYear = 0
    /\ shape = EmptyTensor.shape
    /\ year = 0
    /\ d = 0
    /\ dim_len = 0
    /\ timeOffset = 0
    /\ status = 0
    /\ ncid = 0
    /\ coastData = EmptyTensor
    /\ buffer = EmptyBuffer
    /\ handles = {}
    /\ nextId = 1
    /\ dimlens = << >>
    /\ trace = << >>
    /\ writes = << >>
    /\ oob = {}
    /\ readResult = None
    /\ result = None
    /\ maxdivResult = None

\* the defaults are filled in, then the call runs up to the end of the
\* parameter check of read_coastdat
NextDefaults ==
    \/ MaxdivCoastdatDefaultParams
    \/ MaxdivCoastdatNullParams
    \/ RejectParams
    \/ AcceptParams

SpecDefaults == InitDefaults /\ [][NextDefaults]_vars

(***************************************************************************)
(* C12: maxdiv_coastdat_default_params sets variables = ff,hs,mp,          *)
(* firstYear = 1, lastYear = 50, firstLat = 53, lastLat = 100,             *)
(* firstLon = 30, lastLon = 98, spatialPoolingSize = 4, whatever the       *)
(* structure held before; a NULL argument is left alone; and the preset    *)
(* is accepted by the parameter check of read_coastdat (only the NULL      *)
(* argument is refused), which reads three variables and the years 1..50   *)
(* from it.                                                                *)
(***************************************************************************)
C12_Preset ==
    [ variables |-> << "f", "f", ",", "h", "s", ",", "m", "p" >>,
      firstYear |-> 1, lastYear |-> 50, firstLat |-> 53, lastLat |-> 100,
      firstLon |-> 30, lastLon |-> 98, spatialPoolingSize |-> 4 ]

C12_PresetSet ==
    pc = "default_params" =>
        data_params' =
            IF data_params = NullParams THEN NullParams ELSE C12_Preset

C12_PresetAccepted ==
    /\ pc = "read_return" => data_params = NullParams /\ readResult = <<1>>
    /\ pc = "measure_open" =>
         /\ data_params = C12_Preset
         /\ variables = << <<"f", "f">>, <<"h", "s">>, <<"m", "p">> >>
         /\ firstYear = 1
         /\ lastYear = 50

C12_DefaultParams == [][C12_PresetSet]_vars /\ []C12_PresetAccepted

C12_Witness ==
    /\ pc = "measure_open"
    /\ data_params = C12_Preset
    /\ shape.d = 3


(***************************************************************************)
(* C13: the streaming goes through the years in ascending order and,       *)
(* within a year, through the variables in list order: the k-th block that *)
(* is read and the k-th block that is pooled is the one of variable        *)
(* ((k-1) mod n) + 1 of the list in year firstYear + (k-1) div n.  A       *)
(* pooling step stores only at coordinates whose channel is the list       *)
(* position of the variable the block was read from.                       *)
(***************************************************************************)
IsOp(op, e) == e.op = op
BlocksOf(op) == SelectSeq(trace, LAMBDA e : IsOp(op, e))

BlockInOrder(k) ==
    << variables[((k - 1) % Len(variables)) + 1],
       firstYear + ((k - 1) \div Len(variables)) >>

C13_BlocksInOrder ==
    Accepted =>
        \A op \in {"nc_get_vara", "pool"} :
            LET blocks == BlocksOf(op)
            IN  \A k \in 1..Len(blocks) :
                    /\ blocks[k].unit = BlockInOrder(k)
                    /\ blocks[k].unit[2] <= lastYear

\* the unit the block in `buffer` was read from
BlockRead == BlocksOf("nc_get_vara")[Len(BlocksOf("nc_get_vara"))].unit

C13_StoredAtOwnChannel ==
    pc = "pool" =>
        LET from == BlockRead[1]
        IN  /\ \A c \in DOMAIN coastData.data :
                  (coastData'.data[c] # coastData.data[c]
                     \/ writes'[c] # writes[c])
                      => variables[c[5] + 1] = from
            /\ \A c \in oob' \ oob :
                  /\ c[5] + 1 \in 1..Len(variables)
                  /\ variables[c[5] + 1] = from

C13_StreamingOrder == []C13_BlocksInOrder /\ [][C13_StoredAtOwnChannel]_vars

\* two years of two variables were pooled
C13_Witness ==
    /\ pc = "release"
    /\ Len(variables) = 2
    /\ lastYear > firstYear
    /\ Len(BlocksOf("pool")) = 4
    /\ \E c \in DOMAIN writes : c[5] = 1 /\ writes[c] > 0


(***************************************************************************)
(* C14: the running time offset advances once per year.  All blocks of a   *)
(* year are pooled from the same base offset, and while a year is being    *)
(* streamed that base offset is the sum of the time lengths the measuring  *)
(* loop got (from the first variable) for the earlier years of the         *)
(* request, whatever lengths the other variables report.                   *)
(***************************************************************************)
Streaming ==
    pc \in {"stream_open", "stream_varid", "stream_dimid", "stream_dimlen",
            "stream_read", "stream_close", "pool"}

\* the time length measured for year firstYear + i
MeasuredExtent == [i \in 0..(lastYear - firstYear) |->
                      dimlens[<<variables[1], firstYear + i>>]]

MeasuredBefore(yr) == SumTo(MeasuredExtent, yr - firstYear)

C14_OffsetIsMeasuredSum ==
    /\ Streaming => timeOffset = MeasuredBefore(year)
    /\ \A i, j \in Events :
          (trace[i].op = "pool" /\ trace[j].op = "pool"
             /\ trace[i].unit[2] = trace[j].unit[2])
              => trace[i].offset = trace[j].offset
    /\ \A i \in Events :
          trace[i].op = "pool" =>
              trace[i].offset = MeasuredBefore(trace[i].unit[2])


(***************************************************************************)
(* C15: the phases of the blocks never overlap.  At most one handle is     *)
(* open at any time; a step that stores into the tensor starts and ends    *)
(* with no handle open; and after the allocation the opens, block reads,   *)
(* closes and poolings come in rounds of open, read, close, pool, the      *)
(* N-th round on the N-th block of the streaming order.                    *)
(***************************************************************************)
PhaseOps == << "nc_open", "nc_get_vara", "nc_close", "pool" >>

IsPhase(e) == \E k \in 1..Len(PhaseOps) : e.op = PhaseOps[k]

\* the events after the allocation of the tensor
SinceResize ==
    IF \E i \in Events : trace[i].op = "resize"
      THEN SubSeq(trace,
                  (CHOOSE i \in Events : trace[i].op = "resize") + 1,
                  Len(trace))
      ELSE << >>

StreamPhases == SelectSeq(SinceResize, IsPhase)

C15_PhasesInRounds ==
    /\ Cardinality(handles) <= 1
    /\ LET phases == StreamPhases
       IN  \A k \in 1..Len(phases) :
               /\ phases[k].op = PhaseOps[((k - 1) % Len(PhaseOps)) + 1]
               /\ phases[k].unit =
                      BlockInOrder(((k - 1) \div Len(PhaseOps)) + 1)

C15_StoreWithNoHandle ==
    (writes' # writes \/ oob' # oob) => (handles = {} /\ handles' = {})

C15_PhasesDoNotOverlap ==
    []C15_PhasesInRounds /\ [][C15_StoreWithNoHandle]_vars

\* the second block is open after the first one was pooled
C15_Witness ==
    /\ pc = "stream_varid"
    /\ handles # {}
    /\ Len(BlocksOf("pool")) = 1
    /\ Len(StreamPhases) = 5


(***************************************************************************)
(* C16: every store of the streaming loop is inside the allocated shape:   *)
(* no pooled value is ever stored at a coordinate the tensor does not      *)
(* have, whatever time lengths the backend reports.                        *)
(***************************************************************************)
C16_WritesInsideShape ==
    /\ oob = {}
    /\ \A i \in Events :
          trace[i].op = "pool" => trace[i].offset + trace[i].len <= shape.t

(***************************************************************************)
(* C17: when read_coastdat returns 0, every coordinate of the tensor has   *)
(* been written exactly once.                                              *)
(***************************************************************************)
C17_WrittenExactlyOnce ==
    (readResult = <<0>> /\ Accepted) =>
        /\ DOMAIN writes = Coords(shape)
        /\ \A c \in DOMAIN writes : writes[c] = 1

(***************************************************************************)
(* C18: after the parameter check accepts a request, the normalized years  *)
(* satisfy 1 <= firstYear <= lastYear <= 50, and every unit that is opened *)
(* is one of a year in 1..50.                                              *)
(***************************************************************************)
C18_YearsInsideDataset ==
    Accepted =>
        /\ 1 <= firstYear
        /\ firstYear <= lastYear
        /\ lastYear <= COASTDAT_NUM_YEARS
        /\ \A i \in Events :
              trace[i].op = "nc_open" =>
                  trace[i].unit[2] \in 1..COASTDAT_NUM_YEARS

=============================================================================
